---- MODULE Spec2Model ----
(***************************************************************************)
(* Authorization and access-token subsystem of the stock-management API:   *)
(* credential check, token issuance with a snapshot of the role's          *)
(* permissions, token verification, the permission gate, and the           *)
(* administrative mutations of the role/permission graph.                  *)
(*                                                                         *)
(* Tables are functions from the primary key to the mapped columns the     *)
(* handlers read.  role_permissions maps a (role_id, permission_id) pair   *)
(* to the number of rows holding it: the surrogate id and the timestamps   *)
(* of a row are read by no handler.  The table has no is_deleted column    *)
(* (models.py 254-271).                                                    *)
(***************************************************************************)
EXTENDS Integers, Sequences, FiniteSets, TLC

VARIABLES users, roles, permissions, role_permissions, tokens, now, response,
          gate_user, gate_required, sessions, last_unassign, orders

vars == <<users, roles, permissions, role_permissions, tokens, now, response,
          gate_user, gate_required, sessions, last_unassign, orders>>

db == <<users, roles, permissions, role_permissions, orders>>

gate == <<gate_user, gate_required>>

-----------------------------------------------------------------------------
(* Bounds of the model *)

\* tokens a client population keeps at the same time
MaxTokens == 1
\* length of the permission id list of one add/remove request
MaxReq == 2
\* rows the permissions table may hold
MaxPermissions == 14
\* last second of the clock
MaxNow == 63
\* last second at which the expiry specification issues a token
MaxIssue == 2
\* length of the required-permission list handed to the gate
MaxRequired == 2
\* length of the permission list of the identity context handed to the gate
MaxGranted == 2
\* rows the users table may hold
MaxUsers == 3

\* rows of the roles table
MaxRoles == 7

\* rows of the orders table
MaxOrders == 3

(* Program constants *)

\* read from the environment (20 when unset); the model is run with 1
ACCESS_TOKEN_EXPIRE_MINUTES == 1

SECRET_KEY == "SECRET_KEY"

HTTP_200_OK == 200
HTTP_201_CREATED == 201
HTTP_204_NO_CONTENT == 204
HTTP_400_BAD_REQUEST == 400
HTTP_401_UNAUTHORIZED == 401
HTTP_403_FORBIDDEN == 403
HTTP_404_NOT_FOUND == 404
HTTP_500_INTERNAL_SERVER_ERROR == 500

required_permissions ==
    <<"VIEW_PERMISSIONS", "CREATE_PERMISSIONS", "EDIT_PERMISSIONS", "DELETE_PERMISSIONS">>

-----------------------------------------------------------------------------
(* Generic helpers *)

Range(s) == {s[i] : i \in DOMAIN s}

\* list(a_set): the elements of the set, each once; the order depends on
\* the hashes of the process, so every order is a possible result
RECURSIVE ListsOf(_)
ListsOf(S) ==
    IF S = {} THEN {<<>>}
    ELSE UNION {{<<x>> \o l : l \in ListsOf(S \ {x})} : x \in S}

SeqsUpTo(S, n) == UNION {[1..k -> S] : k \in 0..n}

NoResponse ==
    [op |-> "none", status |-> 0, detail |-> "", log |-> "", missing |-> <<>>, body |-> {}]

Resp(op, status, detail) ==
    [op |-> op, status |-> status, detail |-> detail, log |-> "", missing |-> <<>>,
     body |-> {}]

RespLog(op, status, detail, log) ==
    [op |-> op, status |-> status, detail |-> detail, log |-> log, missing |-> <<>>,
     body |-> {}]

\* a 200 answer whose body lists the rows with the given ids
RespBody(op, ids) == [Resp(op, 200, "") EXCEPT !.body = ids]

-----------------------------------------------------------------------------
(* Inputs *)

Usernames == {"alice", "bob", "mallory"}

\* a password is its first 72 bytes, all that bcrypt reads, the bytes after
\* them, and its length in characters
PwA == [first72 |-> "pw-a", rest |-> "", length |-> 4]

PwLongX == [first72 |-> "72 bytes", rest |-> "X", length |-> 73]

PwLongY == [first72 |-> "72 bytes", rest |-> "Y", length |-> 73]

Passwords == {PwA, PwLongX, PwLongY}

\* the salts bcrypt may draw for a hash
Salts == {"salt-1", "salt-2"}

\* role ids and permission ids a request may name
RoleIdInputs == {4, 5}

\* names of create_role and update_role requests; "" is an update that
\* carries no name
NewRoleNames == {"viewer", "auditor"}

RoleUpdateNames == NewRoleNames \cup {""}

\* the path and query parameters of the orders endpoints
OrderIdInputs == {1, 2}

UserIdInputs == {1, 2}

\* the optional status of a request; "" is a request that carries none
OrderStatusInputs == {"", "COMPLETED"}

\* the optional total_price of an update; 0 is a request that carries none
TotalPriceInputs == {0, 5}

\* the product ids of the items of a create_order request
OrderItemInputs == {<<>>, <<1>>, <<9>>}

\* the ids of the rows POST /products/ has added to the products table
ProductIds == {1}

PermIdInputs == {1, 13}

NewPermissionNames == {"EXPORT_REPORTS", "VIEW_STOCKS"}

\* names of update_permission requests; "" is an update that carries no name
PermissionUpdateNames == NewPermissionNames \cup {""}

\* the fields of a create_user request: a username, an email, a password
\* (Passwords) and an optional role id
NewUsernames == {"bob", "mallory"}

EmailInputs == {"bob@example.com", "mallory@example.com"}

\* 0 stands for a request without role_id
RoleIdOptions == {0, 5}

\* the worker processes that serve requests at the same time
Workers == {1, 2}

\* role ids and permission ids of the requests the workers serve: one that
\* exists and one that no row has
WorkerRoleIdInputs == {5, 99}

WorkerPermIdInputs == {13, 99}

-----------------------------------------------------------------------------
(* Queries *)

NULL == 0

\* db.query(Users).filter(Users.username == username).first()
UserByUsername(username) ==
    LET found == {u \in DOMAIN users : users[u].username = username}
    IN IF found = {} THEN NULL ELSE CHOOSE u \in found : TRUE

\* a lookup by name that does not look at the deletion flag
RoleByName_any(name) ==
    LET found == {r \in DOMAIN roles : roles[r].name = name}
    IN IF found = {} THEN NULL ELSE CHOOSE r \in found : TRUE

\* db.query(Roles).filter(Roles.name == role, Roles.is_deleted == False).first()
ActiveRoleByName(name) ==
    LET found == {r \in DOMAIN roles : roles[r].name = name /\ ~roles[r].is_deleted}
    IN IF found = {} THEN NULL ELSE CHOOSE r \in found : TRUE

\* db.query(Roles).filter(Roles.id == role_id, Roles.is_deleted == False).first()
ActiveRole(role_id) == role_id \in DOMAIN roles /\ ~roles[role_id].is_deleted

\* a lookup by id that does not look at the soft-delete flag
ActivePermission_any(permission_id) == permission_id \in DOMAIN permissions

\* db.query(Permissions).filter(Permissions.id == id, Permissions.is_deleted == False).first()
ActivePermission(permission_id) ==
    permission_id \in DOMAIN permissions /\ ~permissions[permission_id].is_deleted

\* db.query(Permissions).filter(Permissions.name == name, Permissions.is_deleted == False).first()
ActivePermissionByName(name) ==
    LET found == {p \in DOMAIN permissions :
                     permissions[p].name = name /\ ~permissions[p].is_deleted}
    IN IF found = {} THEN NULL ELSE CHOOSE p \in found : TRUE

\* a table with no constraint on the name column
uq_name_absent(rows) == TRUE

\* Roles.name is declared unique=True: no two rows of the table hold one name
uq_roles_name(rows) ==
    \A a, b \in DOMAIN rows : a # b => rows[a].name # rows[b].name

\* Permissions.name is declared unique=True
uq_permissions_name(rows) ==
    \A a, b \in DOMAIN rows : a # b => rows[a].name # rows[b].name

\* db.query(Orders).filter(Orders.id == order_id, Orders.is_deleted == False).first()
ActiveOrder(order_id) == order_id \in DOMAIN orders /\ ~orders[order_id].is_deleted

\* db.query(RolePermissions).filter(role_id == r, permission_id == p).first()
ExistingRolePermission(role_id, permission_id) ==
    <<role_id, permission_id>> \in DOMAIN role_permissions
    /\ role_permissions[<<role_id, permission_id>>] > 0

\* db.query(Permissions.name).join(RolePermissions)
\*   .filter(RolePermissions.role_id == role_obj.id).all(), as a set of names
RolePermissionNames(role_id) ==
    {permissions[p].name :
        p \in {q \in DOMAIN permissions : ExistingRolePermission(role_id, q)}}

\* a property that grants a default permission to a user without a role
Users_permissions_default(u) ==
    IF users[u].role_id = NULL \/ users[u].role_id \notin DOMAIN roles
    THEN {"VIEW_STOCKS"}
    ELSE RolePermissionNames(users[u].role_id)

\* models.py Users.permissions
Users_permissions(u) ==
    IF users[u].role_id = NULL \/ users[u].role_id \notin DOMAIN roles
    THEN {}
    ELSE {permissions[p].name :
             p \in {q \in DOMAIN permissions :
                       ExistingRolePermission(users[u].role_id, q)
                       /\ permissions[q].name # ""}}

-----------------------------------------------------------------------------
(* passlib bcrypt context *)

\* a context that stores the password as it is
plain_hash(password, salt) == <<"plain", salt, password>>

\* bcrypt_context.hash: the scheme, the salt drawn for this hash, and the
\* digest of the salt and the first 72 bytes
bcrypt_hash(password, salt) == <<"$2b$", salt, password.first72>>

\* bcrypt_context.verify: the digest of the stored salt and the first 72
\* bytes of the password against the stored digest
bcrypt_verify(password, hashed) == hashed[1] = "$2b$" /\ hashed[3] = password.first72

-----------------------------------------------------------------------------
(* python-jose *)

\* jwt.encode: a datetime exp becomes whole seconds; the claims are signed
jwt_encode(claims, key) == [key |-> key, claims |-> claims]

\* jwt.decode: signature, then exp against the clock
jwt_decode(token, key, t) ==
    IF token.key # key THEN [ok |-> FALSE, error |-> "JWTError", payload |-> <<>>]
    ELSE IF "exp" \in DOMAIN token.claims /\ token.claims.exp < t
         THEN [ok |-> FALSE, error |-> "ExpiredSignatureError", payload |-> <<>>]
         ELSE [ok |-> TRUE, error |-> "", payload |-> token.claims]

-----------------------------------------------------------------------------
(* Token Verifier: the two get_current_user dependencies *)

NoneValue == "None"

NoUser == [id |-> 0, username |-> "", user_role |-> NoneValue, permissions |-> <<>>]

\* a condition that only asks whether the key is there
TruthyInt_present(payload, key) == key \in DOMAIN payload

\* payload.get(key) used as a condition: absent, 0 and "" are all falsy
TruthyInt(payload, key) == key \in DOMAIN payload /\ payload[key] # 0

TruthyStr(payload, key) == key \in DOMAIN payload /\ payload[key] # ""

PayloadGet(payload, key, default) ==
    IF key \in DOMAIN payload THEN payload[key] ELSE default

IdentityOf(payload) ==
    [id |-> payload.id,
     username |-> payload.sub,
     user_role |-> PayloadGet(payload, "role", NoneValue),
     permissions |-> PayloadGet(payload, "permissions", <<>>)]

\* a verifier that resolves the role's permissions again at verification time
get_current_user_requery(token, t) ==
    LET d == jwt_decode(token, SECRET_KEY, t)
    IN IF ~d.ok \/ ~TruthyStr(d.payload, "sub") \/ ~TruthyInt(d.payload, "id")
       THEN [status |-> HTTP_401_UNAUTHORIZED, detail |-> "Could not validate credentials",
             user |-> NoUser]
       ELSE [status |-> HTTP_200_OK, detail |-> "",
             user |-> [IdentityOf(d.payload) EXCEPT
                          !.permissions =
                              CHOOSE l \in ListsOf(RolePermissionNames(
                                                       ActiveRoleByName(d.payload.role))) : TRUE]]

\* a verifier that stops at the signature and the expiry
get_current_user_lenient(token, t) ==
    LET d == jwt_decode(token, SECRET_KEY, t)
    IN IF ~d.ok
       THEN [status |-> HTTP_401_UNAUTHORIZED, detail |-> "Could not validate credentials",
             user |-> NoUser]
       ELSE [status |-> HTTP_200_OK, detail |-> "",
             user |-> [id |-> PayloadGet(d.payload, "id", 0),
                       username |-> PayloadGet(d.payload, "sub", NoneValue),
                       user_role |-> PayloadGet(d.payload, "role", NoneValue),
                       permissions |-> PayloadGet(d.payload, "permissions", <<>>)]]

\* routers/auth.py get_current_user at clock t
get_current_user(token, t) ==
    LET d == jwt_decode(token, SECRET_KEY, t)
    IN IF ~d.ok
       THEN [status |-> HTTP_401_UNAUTHORIZED, detail |-> "Could not validate credentials",
             user |-> NoUser]
       ELSE IF ~TruthyStr(d.payload, "sub") \/ ~TruthyInt(d.payload, "id")
            THEN [status |-> HTTP_401_UNAUTHORIZED,
                  detail |-> "Could not validate credentials", user |-> NoUser]
            ELSE [status |-> HTTP_200_OK, detail |-> "", user |-> IdentityOf(d.payload)]

\* dependencies.py get_current_user at clock t
dependencies_get_current_user(token, t) ==
    LET d == jwt_decode(token, SECRET_KEY, t)
    IN IF ~d.ok
       THEN [status |-> HTTP_401_UNAUTHORIZED, detail |-> "Could not validate credentials 2",
             user |-> NoUser]
       ELSE IF ~TruthyStr(d.payload, "sub") \/ ~TruthyInt(d.payload, "id")
            THEN [status |-> HTTP_401_UNAUTHORIZED,
                  detail |-> "Could not validate credentials 1", user |-> NoUser]
            ELSE [status |-> HTTP_200_OK, detail |-> "", user |-> IdentityOf(d.payload)]

-----------------------------------------------------------------------------
(* Permission Gate *)

\* a gate that allows as soon as one required permission is held
check_permissions_any(user, required) ==
    LET user_permissions == Range(user.permissions)
        missing_permissions ==
            SelectSeq(required, LAMBDA perm : perm \notin user_permissions)
    IN IF required # <<>> /\ Len(missing_permissions) = Len(required)
       THEN [status |-> HTTP_403_FORBIDDEN,
             detail |-> "Insufficient permissions. Missing:",
             missing |-> missing_permissions,
             user |-> user, required |-> required]
       ELSE [status |-> HTTP_200_OK, detail |-> "", missing |-> <<>>,
             user |-> user, required |-> required]

\* a gate that takes the permissions it checks out of the list of the
\* context it was handed (user['permissions'].remove(perm) in the loop)
check_permissions_consuming(user, required) ==
    LET user_permissions == Range(user.permissions)
        missing_permissions ==
            SelectSeq(required, LAMBDA perm : perm \notin user_permissions)
        left == [user EXCEPT !.permissions =
                    SelectSeq(@, LAMBDA perm : perm \notin Range(required))]
    IN IF missing_permissions # <<>>
       THEN [status |-> HTTP_403_FORBIDDEN,
             detail |-> "Insufficient permissions. Missing:",
             missing |-> missing_permissions,
             user |-> left, required |-> required]
       ELSE [status |-> HTTP_200_OK, detail |-> "", missing |-> <<>>,
             user |-> left, required |-> required]

\* utils.py check_permissions: the required permissions the user lacks, in
\* the order of the required list. user and required are the two arguments
\* as the call leaves them: set(...) and the list comprehension build new
\* objects, and the function assigns to neither argument.
check_permissions(user, required) ==
    LET user_permissions == Range(user.permissions)
        missing_permissions ==
            SelectSeq(required, LAMBDA perm : perm \notin user_permissions)
    IN IF missing_permissions # <<>>
       THEN [status |-> HTTP_403_FORBIDDEN,
             detail |-> "Insufficient permissions. Missing:",
             missing |-> missing_permissions,
             user |-> user, required |-> required]
       ELSE [status |-> HTTP_200_OK, detail |-> "", missing |-> <<>>,
             user |-> user, required |-> required]

-----------------------------------------------------------------------------
(* Authenticator and Token Issuer *)

NoToken == [key |-> "", claims |-> <<>>]

\* timedelta(minutes=ACCESS_TOKEN_EXPIRE_MINUTES), in seconds
expires_delta == 60 * ACCESS_TOKEN_EXPIRE_MINUTES

\* routers/auth.py authenticate_user: the user's id, or False (NULL)
authenticate_user(username, password) ==
    LET user == UserByUsername(username)
    IN IF user = NULL
       THEN [user |-> NULL, log |-> "Failed login attempt: Username not found."]
       ELSE IF ~bcrypt_verify(password, users[user].hashed_password)
            THEN [user |-> NULL, log |-> "Failed login attempt: Incorrect password."]
            ELSE [user |-> user, log |-> ""]

\* routers/auth.py create_access_token at clock t; listed is the list that
\* list(permissions) gives, one of ListsOf(perms)
create_access_token(username, user_id, role, delta, t, listed) ==
    LET role_obj == ActiveRoleByName(role)
        perms == RolePermissionNames(role_obj)
    IN IF role_obj = NULL
       THEN [ok |-> FALSE, error |-> "ValueError: role does not exist or is deleted",
             permissions |-> {}, token |-> NoToken]
       ELSE IF perms = {}
            THEN [ok |-> FALSE, error |-> "ValueError: role has no valid permissions",
                  permissions |-> {}, token |-> NoToken]
            ELSE [ok |-> TRUE, error |-> "", permissions |-> perms,
                  token |-> jwt_encode([sub |-> username, id |-> user_id, role |-> role,
                                        permissions |-> listed, exp |-> t + delta],
                                       SECRET_KEY)]

\* a login that answers an unknown username with its own error
login_for_access_token_leaky(username, password, t, listed) ==
    LET auth == authenticate_user(username, password)
        user == auth.user
        role_id == users[user].role_id
        issued == create_access_token(users[user].username, user, roles[role_id].name,
                                      expires_delta, t, listed)
    IN IF UserByUsername(username) = NULL
       THEN [status |-> HTTP_404_NOT_FOUND, detail |-> "User not found",
             log |-> auth.log, permissions |-> {}, token |-> NoToken]
       ELSE IF user = NULL
       THEN [status |-> HTTP_401_UNAUTHORIZED, detail |-> "Could not validate credentials",
             log |-> auth.log, permissions |-> {}, token |-> NoToken]
       ELSE IF role_id = NULL \/ role_id \notin DOMAIN roles \/ ~issued.ok
            THEN [status |-> HTTP_500_INTERNAL_SERVER_ERROR,
                  detail |-> "Internal Server Error",
                  log |-> "error", permissions |-> {}, token |-> NoToken]
            ELSE [status |-> HTTP_200_OK, detail |-> "", log |-> "",
                  permissions |-> issued.permissions, token |-> issued.token]

\* the lists list(permissions) may give in a login: those of the set the
\* issuer resolves for the user's role, when the login gets that far
LoginLists(username, password) ==
    LET user == UserByUsername(username)
    IN IF user = NULL \/ ~bcrypt_verify(password, users[user].hashed_password)
          \/ users[user].role_id \notin DOMAIN roles
       THEN {<<>>}
       ELSE ListsOf(RolePermissionNames(ActiveRoleByName(roles[users[user].role_id].name)))

\* routers/auth.py login_for_access_token at clock t
login_for_access_token(username, password, t, listed) ==
    LET auth == authenticate_user(username, password)
        user == auth.user
        role_id == users[user].role_id
        issued == create_access_token(users[user].username, user, roles[role_id].name,
                                      expires_delta, t, listed)
    IN IF user = NULL
       THEN [status |-> HTTP_401_UNAUTHORIZED, detail |-> "Could not validate credentials",
             log |-> auth.log, permissions |-> {}, token |-> NoToken]
       ELSE IF role_id = NULL \/ role_id \notin DOMAIN roles
            THEN \* user.role is None: user.role.name raises AttributeError
                 [status |-> HTTP_500_INTERNAL_SERVER_ERROR, detail |-> "Internal Server Error",
                  log |-> "AttributeError", permissions |-> {}, token |-> NoToken]
            ELSE IF ~issued.ok
                 THEN [status |-> HTTP_500_INTERNAL_SERVER_ERROR,
                       detail |-> "Internal Server Error",
                       log |-> issued.error, permissions |-> {}, token |-> NoToken]
                 ELSE [status |-> HTTP_200_OK, detail |-> "", log |-> "",
                       permissions |-> issued.permissions, token |-> issued.token]

-----------------------------------------------------------------------------
(* Session *)

\* a table that declares no unique constraint
uq_role_permission_absent(table) == TRUE

\* models.py RolePermissions.__table_args__: UniqueConstraint('role_id', 'permission_id')
uq_role_permission(table) == \A pair \in DOMAIN table : table[pair] <= 1

RECURSIVE InsertRows(_, _, _)
\* db.add(RolePermissions(role_id, permission_id)) for each id of the list
InsertRows(table, role_id, perm_ids) ==
    IF perm_ids = <<>> THEN table
    ELSE LET pair == <<role_id, Head(perm_ids)>>
             next == IF pair \in DOMAIN table
                     THEN [table EXCEPT ![pair] = @ + 1]
                     ELSE [q \in DOMAIN table \cup {pair} |->
                              IF q = pair THEN 1 ELSE table[q]]
         IN InsertRows(next, role_id, Tail(perm_ids))

\* db.delete(role_permission): the row .first() returned leaves the table
DeleteRow(table, pair) ==
    IF table[pair] > 1 THEN [table EXCEPT ![pair] = @ - 1]
    ELSE [q \in DOMAIN table \ {pair} |-> table[q]]

\* db.commit() of pending inserts: the flush fails as a whole, and the
\* transaction is rolled back, when a row breaks the unique constraint
commit_role_permissions(table) ==
    IF uq_role_permission(table)
    THEN [ok |-> TRUE, table |-> table]
    ELSE [ok |-> FALSE, table |-> role_permissions]

\* a session whose close writes the pending rows
session_close_flushes(table, role_id, pending) == InsertRows(table, role_id, pending)

\* get_db's finally: db.close() drops the rows that were added and not
\* committed
session_close(table, role_id, pending) == table

\* a worker between requests
IdleSession == [pc |-> "idle", role_id |-> 0, rest |-> <<>>, pending |-> <<>>, status |-> 0]

InitSessions == [w \in Workers |-> IdleSession]

\* no unassign has succeeded yet
NoUnassign == [role_id |-> 0, permission_ids |-> {}, at |-> 0]

\* the bearer tokens a caller may present: the issued ones and one signed
\* with another key
ForgedToken ==
    jwt_encode([sub |-> "alice", id |-> 2, role |-> "permission_admin",
                permissions |-> required_permissions, exp |-> MaxNow + expires_delta],
               "attacker-key")

IssuedTokens == {t.jwt : t \in tokens}

PresentedTokens == IssuedTokens \cup {ForgedToken}

-----------------------------------------------------------------------------------------------------------------------------------------------------
(* Initial state: the database seed_roles_and_permissions leaves when the   *)
(* application is imported on an empty database                             *)

\* the names of permissions_data, in the order the seed adds and flushes them
seed_permissions ==
    <<"VIEW_STOCKS", "UPDATE_STOCKS", "VIEW_REPORTS", "VALIDATE_ORDERS", "VIEW_USERS",
      "CREATE_USERS", "EDIT_USERS", "DELETE_USERS", "MANAGE_PERMISSIONS">>

\* the role names of roles_data, in the order the seed adds and flushes them
seed_roles == <<"admin", "manager", "clerk", "client", "viewer">>

\* roles_data: the permission names each seeded role is given
seed_role_permissions(name) ==
    CASE name = "admin" -> Range(seed_permissions)
      [] name = "manager" -> {"VIEW_STOCKS", "UPDATE_STOCKS", "VIEW_REPORTS",
                              "VALIDATE_ORDERS", "VIEW_USERS", "EDIT_USERS"}
      [] name = "clerk" -> {"VIEW_STOCKS", "UPDATE_STOCKS", "VALIDATE_ORDERS"}
      [] name = "client" -> {"VIEW_STOCKS", "VALIDATE_ORDERS"}
      [] name = "viewer" -> {"VIEW_STOCKS"}

InitRoles == [r \in DOMAIN seed_roles |-> [name |-> seed_roles[r], is_deleted |-> FALSE]]

InitPermissions ==
    [p \in DOMAIN seed_permissions |-> [name |-> seed_permissions[p], is_deleted |-> FALSE]]

InitRolePermissions ==
    [pair \in {q \in (DOMAIN seed_roles) \X (DOMAIN seed_permissions) :
                  seed_permissions[q[2]] \in seed_role_permissions(seed_roles[q[1]])}
        |-> 1]

\* the seed adds no user and no order
InitDb ==
    /\ orders = <<>>
    /\ users = <<>>
    /\ roles = InitRoles
    /\ permissions = InitPermissions
    /\ role_permissions = InitRolePermissions

Init ==
    /\ InitDb
    /\ tokens = {}
    /\ now = 0
    /\ response = NoResponse
    /\ gate_user = NoUser
    /\ gate_required = <<>>
    /\ sessions = InitSessions
    /\ last_unassign = NoUnassign

-----------------------------------------------------------------------------
(* A provisioned deployment: the rows the handlers add to the seeded        *)
(* database when bob registers as a viewer, creates the role                *)
(* permission_admin and the four permissions the permission endpoints       *)
(* require, links them, alice registers with that role, and each of them    *)
(* places an order                                                          *)

\* create_user for bob with the seeded role viewer, then for alice with the
\* created role
ProvisionedUsers ==
    [u \in {1, 2} |->
        IF u = 1
        THEN [username |-> "bob", email |-> "bob@example.com",
              hashed_password |-> bcrypt_hash(PwA, "salt-1"),
              is_active |-> TRUE, is_deleted |-> FALSE, role_id |-> 5]
        ELSE [username |-> "alice", email |-> "alice@example.com",
              hashed_password |-> bcrypt_hash(PwLongX, "salt-2"),
              is_active |-> TRUE, is_deleted |-> FALSE, role_id |-> 6]]

\* create_role adds the row after the seeded ones
ProvisionedRoles ==
    [r \in DOMAIN InitRoles \cup {6} |->
        IF r \in DOMAIN InitRoles THEN InitRoles[r]
        ELSE [name |-> "permission_admin", is_deleted |-> FALSE]]

\* create_permission adds the four required names after the seeded ones
ProvisionedPermissions ==
    [p \in DOMAIN InitPermissions \cup {Len(seed_permissions) + i : i \in 1..4} |->
        IF p \in DOMAIN InitPermissions THEN InitPermissions[p]
        ELSE [name |-> required_permissions[p - Len(seed_permissions)],
              is_deleted |-> FALSE]]

\* add_permissions_to_role links the created role to the four permissions
ProvisionedRolePermissions ==
    [pair \in DOMAIN InitRolePermissions
               \cup {<<6, Len(seed_permissions) + i>> : i \in 1..4} |-> 1]

\* create_order with no item by each user, and update_order that prices
\* the first
ProvisionedOrders ==
    [o \in {1, 2} |->
        [user_id |-> o, status |-> "PENDING", total_price |-> IF o = 1 THEN 5 ELSE 0,
         is_deleted |-> FALSE]]

ProvisionedDb ==
    /\ orders = ProvisionedOrders
    /\ users = ProvisionedUsers
    /\ roles = ProvisionedRoles
    /\ permissions = ProvisionedPermissions
    /\ role_permissions = ProvisionedRolePermissions

Provisioned ==
    /\ ProvisionedDb
    /\ tokens = {}
    /\ now = 0
    /\ response = NoResponse
    /\ gate_user = NoUser
    /\ gate_required = <<>>
    /\ sessions = InitSessions
    /\ last_unassign = NoUnassign

-----------------------------------------------------------------------------
(* Operations *)

\* POST /auth/token; listed is one of LoginLists(username, password)
Login(username, password, listed) ==
    LET r == login_for_access_token(username, password, now, listed)
    IN /\ response' = RespLog("login_for_access_token", r.status, r.detail, r.log)
       /\ tokens' = IF r.status = HTTP_200_OK
                    THEN tokens \cup {[jwt |-> r.token, resolved |-> r.permissions]}
                    ELSE tokens
       /\ Cardinality(tokens') <= MaxTokens
       /\ UNCHANGED <<db, now, gate, sessions, last_unassign>>

\* POST /auth/users
CreateUser(username, email, password, role_id, salt) ==
    LET op == "create_user"
        existing_user == UserByUsername(username)
        same_email == {u \in DOMAIN users : users[u].email = email}
        new_id == Cardinality(DOMAIN users) + 1
    IN /\ IF existing_user # NULL
          THEN /\ response' = Resp(op, HTTP_400_BAD_REQUEST, "Username already exists")
               /\ UNCHANGED users
          ELSE IF same_email # {}
          THEN \* the unique email column: db.commit() raises, the handler rolls back
               /\ response' = RespLog(op, HTTP_500_INTERNAL_SERVER_ERROR,
                                      "An error occurred while creating the user",
                                      "Error creating user")
               /\ UNCHANGED users
          ELSE /\ new_id <= MaxUsers
               /\ response' = Resp(op, HTTP_201_CREATED, "User created successfully")
               /\ users' =
                     [u \in DOMAIN users \cup {new_id} |->
                         IF u = new_id
                         THEN [username |-> username, email |-> email,
                               hashed_password |-> bcrypt_hash(password, salt),
                               is_active |-> TRUE, is_deleted |-> FALSE,
                               role_id |-> role_id]
                         ELSE users[u]]
       /\ UNCHANGED <<roles, permissions, role_permissions, tokens, now, gate, sessions,
                      last_unassign, orders>>

\* PUT /users/password : get_current_user, the validation of the body
\* (UserVerification.new_password has min_length=6), the current password
\* against the stored hash, then the hash of the new password with a fresh salt
ChangePassword(token, password, new_password, salt) ==
    LET op == "change_password"
        auth == get_current_user(token, now)
        id == auth.user.id
    IN /\ IF auth.status # HTTP_200_OK
          THEN /\ response' = Resp(op, auth.status, auth.detail)
               /\ UNCHANGED users
          ELSE IF new_password.length < 6
          THEN \* RequestValidationError, answered 422 by the framework
               /\ response' = Resp(op, 422, "String should have at least 6 characters")
               /\ UNCHANGED users
          ELSE IF id \notin DOMAIN users
          THEN \* .first() is None: user_model.hashed_password raises AttributeError
               /\ response' = Resp(op, HTTP_500_INTERNAL_SERVER_ERROR,
                                   "Internal Server Error")
               /\ UNCHANGED users
          ELSE IF ~bcrypt_verify(password, users[id].hashed_password)
          THEN /\ response' = Resp(op, HTTP_401_UNAUTHORIZED, "Error on password change.")
               /\ UNCHANGED users
          ELSE /\ response' = Resp(op, HTTP_204_NO_CONTENT, "")
               /\ users' = [users EXCEPT
                               ![id].hashed_password = bcrypt_hash(new_password, salt)]
       /\ UNCHANGED <<roles, permissions, role_permissions, tokens, now, gate, sessions,
                      last_unassign, orders>>

\* POST /auth/token by a client that keeps only the token it got last
LoginReplacing(username, password, listed) ==
    LET r == login_for_access_token(username, password, now, listed)
    IN /\ response' = RespLog("login_for_access_token", r.status, r.detail, r.log)
       /\ tokens' = IF r.status = HTTP_200_OK
                    THEN {[jwt |-> r.token, resolved |-> r.permissions]}
                    ELSE tokens
       /\ UNCHANGED <<db, now, gate, sessions, last_unassign>>

\* GET /roles/ : get_current_user, verify_user, then the query
ReadAllRoles(token) ==
    LET auth == get_current_user(token, now)
    IN /\ response' = IF auth.status # HTTP_200_OK
                      THEN Resp("read_all_roles", auth.status, auth.detail)
                      ELSE Resp("read_all_roles", HTTP_200_OK, "")
       /\ UNCHANGED <<db, tokens, now, gate, sessions, last_unassign>>

\* POST /roles/role/add_permissions
AddPermissionsToRole(token, role_id, perm_ids) ==
    LET op == "add_permissions_to_role"
        auth == get_current_user(token, now)
        missing == {i \in DOMAIN perm_ids : ~ActivePermission(perm_ids[i])}
        pending == SelectSeq(perm_ids, LAMBDA p : ~ExistingRolePermission(role_id, p))
        done == commit_role_permissions(InsertRows(role_permissions, role_id, pending))
    IN /\ IF auth.status # HTTP_200_OK
          THEN /\ response' = Resp(op, auth.status, auth.detail)
               /\ UNCHANGED role_permissions
          ELSE IF ~ActiveRole(role_id)
          THEN /\ response' = Resp(op, HTTP_404_NOT_FOUND, "Role not found")
               /\ UNCHANGED role_permissions
          ELSE IF missing # {}
          THEN /\ response' = Resp(op, HTTP_404_NOT_FOUND, "Permission with ID not found")
               /\ UNCHANGED role_permissions
          ELSE IF ~done.ok
          THEN /\ response' = RespLog(op, HTTP_500_INTERNAL_SERVER_ERROR,
                                      "Internal Server Error", "IntegrityError")
               /\ UNCHANGED role_permissions
          ELSE /\ response' = Resp(op, HTTP_201_CREATED, "Permissions assigned successfully")
               /\ role_permissions' = done.table
       /\ UNCHANGED <<users, roles, permissions, tokens, now, gate, sessions, last_unassign, orders>>

\* DELETE /roles/role/remove_permissions.  The handler sets is_deleted on
\* each RolePermissions instance it finds; the class maps no such column, so
\* the commit writes no row.
remove_permissions_from_role(token, role_id, perm_ids) ==
    LET op == "remove_permissions_from_role"
        auth == get_current_user(token, now)
        missing == {i \in DOMAIN perm_ids : ~ActivePermission(perm_ids[i])}
    IN IF auth.status # HTTP_200_OK THEN Resp(op, auth.status, auth.detail)
       ELSE IF ~ActiveRole(role_id) THEN Resp(op, HTTP_404_NOT_FOUND, "Role not found")
       ELSE IF missing # {}
            THEN Resp(op, HTTP_404_NOT_FOUND, "Permission with ID not found")
            ELSE Resp(op, HTTP_204_NO_CONTENT, "Permissions removed from role")

RemovePermissionsFromRole(token, role_id, perm_ids) ==
    /\ response' = remove_permissions_from_role(token, role_id, perm_ids)
    /\ UNCHANGED <<db, tokens, now, gate, sessions, last_unassign>>

\* the same request, with the time of a successful unassign of existing
\* associations kept for the record
RemovePermissionsFromRoleAt(token, role_id, perm_ids) ==
    LET r == remove_permissions_from_role(token, role_id, perm_ids)
        unassigned == {p \in Range(perm_ids) : ExistingRolePermission(role_id, p)}
    IN /\ response' = r
       /\ last_unassign' =
             IF r.status = HTTP_204_NO_CONTENT /\ unassigned # {}
             THEN [role_id |-> role_id, permission_ids |-> unassigned, at |-> now]
             ELSE last_unassign
       /\ UNCHANGED <<db, tokens, now, gate, sessions>>

\* add_permissions_to_role served by worker w. Between worker processes
\* every SELECT is a statement of its own (the session opens no transaction
\* for a read and autoflush is off), so another worker may commit between two
\* of them: the request is one step per statement. rest holds the permission
\* ids the for loop has still to visit, pending the ids handed to db.add.
\*
\* verify_user and the SELECT of the role
BeginAddPermissions(w, token, role_id, perm_ids) ==
    LET op == "add_permissions_to_role"
        auth == get_current_user(token, now)
    IN /\ sessions[w].pc = "idle"
       /\ IF auth.status # HTTP_200_OK
          THEN /\ response' = Resp(op, auth.status, auth.detail)
               /\ sessions' = [sessions EXCEPT ![w] =
                                  [IdleSession EXCEPT !.status = auth.status]]
          ELSE IF ~ActiveRole(role_id)
          THEN /\ response' = Resp(op, HTTP_404_NOT_FOUND, "Role not found")
               /\ sessions' = [sessions EXCEPT ![w] =
                                  [IdleSession EXCEPT !.status = HTTP_404_NOT_FOUND]]
          ELSE /\ sessions' = [sessions EXCEPT ![w] =
                                  [pc |-> IF perm_ids = <<>> THEN "commit"
                                          ELSE "select_permission",
                                   role_id |-> role_id, rest |-> perm_ids,
                                   pending |-> <<>>, status |-> 0]]
               /\ UNCHANGED response
       /\ UNCHANGED <<db, tokens, now, gate, last_unassign>>

\* the SELECT of the permission the loop is at; a miss raises 404, and the
\* session is closed with what it holds
SelectPermission(w) ==
    LET op == "add_permissions_to_role"
        perm_id == Head(sessions[w].rest)
    IN /\ sessions[w].pc = "select_permission"
       /\ IF ~ActivePermission(perm_id)
          THEN /\ response' = Resp(op, HTTP_404_NOT_FOUND, "Permission with ID not found")
               /\ sessions' = [sessions EXCEPT ![w] =
                                  [@ EXCEPT !.pc = "idle", !.rest = <<>>,
                                            !.status = HTTP_404_NOT_FOUND]]
               /\ role_permissions' = session_close(role_permissions, sessions[w].role_id,
                                                    sessions[w].pending)
          ELSE /\ sessions' = [sessions EXCEPT ![w].pc = "select_role_permission"]
               /\ UNCHANGED <<response, role_permissions>>
       /\ UNCHANGED <<users, roles, permissions, tokens, now, gate, last_unassign, orders>>

\* the SELECT of the association of the role and that permission, and the
\* db.add when there is none; the loop moves on, to db.commit() after the
\* last id
SelectRolePermission(w) ==
    LET perm_id == Head(sessions[w].rest)
        rest == Tail(sessions[w].rest)
    IN /\ sessions[w].pc = "select_role_permission"
       /\ sessions' = [sessions EXCEPT ![w] =
                          [@ EXCEPT !.pc = IF rest = <<>> THEN "commit"
                                           ELSE "select_permission",
                                    !.rest = rest,
                                    !.pending =
                                        IF ExistingRolePermission(sessions[w].role_id, perm_id)
                                        THEN @ ELSE Append(@, perm_id)]]
       /\ UNCHANGED <<db, tokens, now, response, gate, last_unassign>>

\* the db.commit() of worker w and the response that follows it
CommitAddPermissions(w) ==
    LET op == "add_permissions_to_role"
        done == commit_role_permissions(
                    InsertRows(role_permissions, sessions[w].role_id, sessions[w].pending))
    IN /\ sessions[w].pc = "commit"
       /\ IF done.ok
          THEN /\ response' = Resp(op, HTTP_201_CREATED, "Permissions assigned successfully")
               /\ role_permissions' = done.table
               /\ sessions' = [sessions EXCEPT ![w] =
                                  [IdleSession EXCEPT !.status = HTTP_201_CREATED]]
          ELSE /\ response' = RespLog(op, HTTP_500_INTERNAL_SERVER_ERROR,
                                      "Internal Server Error", "IntegrityError")
               /\ sessions' = [sessions EXCEPT ![w] =
                                  [@ EXCEPT !.pc = "idle",
                                            !.status = HTTP_500_INTERNAL_SERVER_ERROR]]
               /\ role_permissions' =
                     session_close(role_permissions, sessions[w].role_id, sessions[w].pending)
       /\ UNCHANGED <<users, roles, permissions, tokens, now, gate, last_unassign, orders>>

\* routers/admin.py assign_permission_to_role
AssignPermissionToRole(role_id, permission_name) ==
    LET op == "assign_permission_to_role"
        permission == ActivePermissionByName(permission_name)
    IN /\ IF ~ActiveRole(role_id)
          THEN /\ response' = RespLog(op, 0, "Role not found or is deleted", "ValueError")
               /\ UNCHANGED role_permissions
          ELSE IF permission = NULL
          THEN /\ response' = RespLog(op, 0, "Permission not found or is deleted", "ValueError")
               /\ UNCHANGED role_permissions
          ELSE IF ExistingRolePermission(role_id, permission)
          THEN /\ response' = RespLog(op, 0, "Permission is already assigned to role",
                                      "ValueError")
               /\ UNCHANGED role_permissions
          ELSE LET done == commit_role_permissions(
                               InsertRows(role_permissions, role_id, <<permission>>))
               IN /\ response' = Resp(op, 0, "")
                  /\ role_permissions' = done.table
       /\ UNCHANGED <<users, roles, permissions, tokens, now, gate, sessions, last_unassign, orders>>

\* routers/admin.py remove_permission_from_role
RemovePermissionFromRole(role_id, permission_name) ==
    LET op == "remove_permission_from_role"
        permission == ActivePermissionByName(permission_name)
    IN /\ IF ~ActiveRole(role_id)
          THEN /\ response' = RespLog(op, 0, "Role not found or is deleted", "ValueError")
               /\ UNCHANGED role_permissions
          ELSE IF permission = NULL
          THEN /\ response' = RespLog(op, 0, "Permission not found or is deleted", "ValueError")
               /\ UNCHANGED role_permissions
          ELSE IF ~ExistingRolePermission(role_id, permission)
          THEN /\ response' = RespLog(op, 0, "Permission is not assigned to role",
                                      "ValueError")
               /\ UNCHANGED role_permissions
          ELSE /\ response' = Resp(op, 0, "")
               /\ role_permissions' = DeleteRow(role_permissions, <<role_id, permission>>)
       /\ UNCHANGED <<users, roles, permissions, tokens, now, gate, sessions, last_unassign, orders>>


\* DELETE /roles/role/{role_id}
DeleteRole(token, role_id) ==
    LET op == "delete_role"
        auth == get_current_user(token, now)
    IN /\ IF auth.status # HTTP_200_OK
          THEN /\ response' = Resp(op, auth.status, auth.detail)
               /\ UNCHANGED roles
          ELSE IF ~ActiveRole(role_id)
          THEN /\ response' = Resp(op, HTTP_404_NOT_FOUND, "Role not found")
               /\ UNCHANGED roles
          ELSE /\ response' = Resp(op, HTTP_204_NO_CONTENT, "Role deleted successfully")
               /\ roles' = [roles EXCEPT ![role_id].is_deleted = TRUE]
       /\ UNCHANGED <<users, permissions, role_permissions, tokens, now, gate, sessions, last_unassign, orders>>

\* GET /permissions/ : the check_permissions call is commented out
ReadAllPermissions(token) ==
    LET op == "read_all_permissions"
        auth == dependencies_get_current_user(token, now)
    IN /\ response' = IF auth.status # HTTP_200_OK
                      THEN Resp(op, auth.status, auth.detail)
                      ELSE Resp(op, HTTP_200_OK, "")
       /\ UNCHANGED <<db, tokens, now, gate, sessions, last_unassign>>

\* POST /permissions/permission : the check_permissions call is commented out
CreatePermission(token, name) ==
    LET op == "create_permission"
        auth == dependencies_get_current_user(token, now)
        existing_permission == {p \in DOMAIN permissions : permissions[p].name = name}
        new_id == Cardinality(DOMAIN permissions) + 1
    IN /\ IF auth.status # HTTP_200_OK
          THEN /\ response' = Resp(op, auth.status, auth.detail)
               /\ UNCHANGED permissions
          ELSE IF existing_permission # {}
          THEN /\ response' = Resp(op, HTTP_400_BAD_REQUEST, "Permission already exists.")
               /\ UNCHANGED permissions
          ELSE /\ new_id <= MaxPermissions
               /\ response' = Resp(op, HTTP_201_CREATED, "")
               /\ permissions' =
                     [p \in DOMAIN permissions \cup {new_id} |->
                         IF p = new_id THEN [name |-> name, is_deleted |-> FALSE]
                         ELSE permissions[p]]
       /\ UNCHANGED <<users, roles, role_permissions, tokens, now, gate, sessions, last_unassign, orders>>

\* DELETE /permissions/permission/{permission_id}
DeletePermission(token, permission_id) ==
    LET op == "delete_permission"
        auth == dependencies_get_current_user(token, now)
        allowed == check_permissions(auth.user, required_permissions)
    IN /\ IF auth.status # HTTP_200_OK
          THEN /\ response' = Resp(op, auth.status, auth.detail)
               /\ UNCHANGED permissions
          ELSE IF allowed.status # HTTP_200_OK
          THEN /\ response' = [Resp(op, allowed.status, allowed.detail)
                                  EXCEPT !.missing = allowed.missing]
               /\ UNCHANGED permissions
          ELSE IF ~ActivePermission(permission_id)
          THEN /\ response' = Resp(op, HTTP_404_NOT_FOUND, "Permission not found")
               /\ UNCHANGED permissions
          ELSE /\ response' = Resp(op, HTTP_204_NO_CONTENT, "")
               /\ permissions' = [permissions EXCEPT ![permission_id].is_deleted = TRUE]
       /\ UNCHANGED <<users, roles, role_permissions, tokens, now, gate, sessions, last_unassign, orders>>

\* GET /permissions/permission/{permission_id}
ReadPermission(token, permission_id) ==
    LET op == "read_permission"
        auth == dependencies_get_current_user(token, now)
        allowed == check_permissions(auth.user, required_permissions)
    IN /\ response' =
            IF auth.status # HTTP_200_OK
            THEN Resp(op, auth.status, auth.detail)
            ELSE IF allowed.status # HTTP_200_OK
            THEN [Resp(op, allowed.status, allowed.detail) EXCEPT !.missing = allowed.missing]
            ELSE IF ~ActivePermission(permission_id)
            THEN Resp(op, HTTP_404_NOT_FOUND, "Permission not found")
            ELSE Resp(op, HTTP_200_OK, permissions[permission_id].name)
       /\ UNCHANGED <<db, tokens, now, gate, sessions, last_unassign>>

\* PUT /permissions/permission/{permission_id}: the commit fails on the
\* unique constraint and the session is closed without the change
UpdatePermission(token, permission_id, name) ==
    LET op == "update_permission"
        auth == dependencies_get_current_user(token, now)
        allowed == check_permissions(auth.user, required_permissions)
        renamed == IF name # ""
                   THEN [permissions EXCEPT ![permission_id].name = name]
                   ELSE permissions
    IN /\ IF auth.status # HTTP_200_OK
          THEN /\ response' = Resp(op, auth.status, auth.detail)
               /\ UNCHANGED permissions
          ELSE IF allowed.status # HTTP_200_OK
          THEN /\ response' = [Resp(op, allowed.status, allowed.detail)
                                  EXCEPT !.missing = allowed.missing]
               /\ UNCHANGED permissions
          ELSE IF ~ActivePermission(permission_id)
          THEN /\ response' = Resp(op, HTTP_404_NOT_FOUND, "Permission not found")
               /\ UNCHANGED permissions
          ELSE IF ~uq_permissions_name(renamed)
          THEN /\ response' = RespLog(op, HTTP_500_INTERNAL_SERVER_ERROR,
                                      "Internal Server Error", "IntegrityError")
               /\ UNCHANGED permissions
          ELSE /\ response' = Resp(op, HTTP_200_OK, renamed[permission_id].name)
               /\ permissions' = renamed
       /\ UNCHANGED <<users, roles, role_permissions, tokens, now, gate, sessions, last_unassign, orders>>

\* GET /roles/role/{role_id}
ReadRole(token, role_id) ==
    LET op == "read_role"
        auth == get_current_user(token, now)
    IN /\ response' =
            IF auth.status # HTTP_200_OK
            THEN Resp(op, auth.status, auth.detail)
            ELSE IF ~ActiveRole(role_id)
            THEN Resp(op, HTTP_404_NOT_FOUND, "Role not found")
            ELSE Resp(op, HTTP_200_OK, roles[role_id].name)
       /\ UNCHANGED <<db, tokens, now, gate, sessions, last_unassign>>

\* POST /roles/role
CreateRole(token, name) ==
    LET op == "create_role"
        auth == get_current_user(token, now)
        existing_role == {r \in DOMAIN roles : roles[r].name = name}
        new_id == Cardinality(DOMAIN roles) + 1
    IN /\ IF auth.status # HTTP_200_OK
          THEN /\ response' = Resp(op, auth.status, auth.detail)
               /\ UNCHANGED roles
          ELSE IF existing_role # {}
          THEN /\ response' = Resp(op, HTTP_400_BAD_REQUEST, "Role already exists")
               /\ UNCHANGED roles
          ELSE /\ new_id <= MaxRoles
               /\ response' = Resp(op, HTTP_201_CREATED, name)
               /\ roles' = [r \in DOMAIN roles \cup {new_id} |->
                               IF r = new_id THEN [name |-> name, is_deleted |-> FALSE]
                               ELSE roles[r]]
       /\ UNCHANGED <<users, permissions, role_permissions, tokens, now, gate, sessions, last_unassign, orders>>

\* PUT /roles/role/{role_id}: the commit fails on the unique constraint and
\* the session is closed without the change
UpdateRole(token, role_id, name) ==
    LET op == "update_role"
        auth == get_current_user(token, now)
        renamed == IF name # "" THEN [roles EXCEPT ![role_id].name = name] ELSE roles
    IN /\ IF auth.status # HTTP_200_OK
          THEN /\ response' = Resp(op, auth.status, auth.detail)
               /\ UNCHANGED roles
          ELSE IF ~ActiveRole(role_id)
          THEN /\ response' = Resp(op, HTTP_404_NOT_FOUND, "Role not found")
               /\ UNCHANGED roles
          ELSE IF ~uq_roles_name(renamed)
          THEN /\ response' = RespLog(op, HTTP_500_INTERNAL_SERVER_ERROR,
                                      "Internal Server Error", "IntegrityError")
               /\ UNCHANGED roles
          ELSE /\ response' = Resp(op, HTTP_200_OK, renamed[role_id].name)
               /\ roles' = renamed
       /\ UNCHANGED <<users, permissions, role_permissions, tokens, now, gate, sessions, last_unassign, orders>>

\* get_order_by_id then verify_order_ownership: the status and detail of
\* the exception raised, or 200 when none is
order_access(order_id, user_id) ==
    IF ~ActiveOrder(order_id)
    THEN [status |-> HTTP_404_NOT_FOUND, detail |-> "Order not found"]
    ELSE IF orders[order_id].user_id # user_id
    THEN [status |-> HTTP_403_FORBIDDEN, detail |-> "Not authorized to access this order"]
    ELSE [status |-> HTTP_200_OK, detail |-> ""]

\* GET /orders/ with the default skip and limit
ReadAllOrders(token) ==
    LET op == "read_all"
        auth == get_current_user(token, now)
    IN /\ response' =
            IF auth.status # HTTP_200_OK
            THEN Resp(op, auth.status, auth.detail)
            ELSE RespBody(op, {o \in DOMAIN orders : ~orders[o].is_deleted})
       /\ UNCHANGED <<db, tokens, now, gate, sessions, last_unassign>>

\* GET /orders/order/{order_id}
ReadOrder(token, order_id) ==
    LET op == "read_order"
        auth == get_current_user(token, now)
        access == order_access(order_id, auth.user.id)
    IN /\ response' =
            IF auth.status # HTTP_200_OK
            THEN Resp(op, auth.status, auth.detail)
            ELSE IF access.status # HTTP_200_OK
            THEN Resp(op, access.status, access.detail)
            ELSE RespBody(op, {order_id})
       /\ UNCHANGED <<db, tokens, now, gate, sessions, last_unassign>>

\* GET /orders/orders/by_user: the parameter named status hides the module
\* of status codes, so the 404 of an empty result is an AttributeError
ReadAllByUser(token, user_id, order_status) ==
    LET op == "read_all_by_user"
        auth == get_current_user(token, now)
        found == {o \in DOMAIN orders :
                     /\ orders[o].user_id = user_id
                     /\ ~orders[o].is_deleted
                     /\ order_status # "" => orders[o].status = order_status}
    IN /\ response' =
            IF auth.status # HTTP_200_OK
            THEN Resp(op, auth.status, auth.detail)
            ELSE IF found = {}
            THEN RespLog(op, HTTP_500_INTERNAL_SERVER_ERROR,
                         "Internal Server Error", "AttributeError")
            ELSE RespBody(op, found)
       /\ UNCHANGED <<db, tokens, now, gate, sessions, last_unassign>>

\* POST /orders/order: calculate_order_total reads product.stock_quantity,
\* an attribute Products does not have, for the first item whose product
\* exists; the flushed order is then never committed
CreateOrder(token, items) ==
    LET op == "create_order"
        auth == get_current_user(token, now)
        new_id == Cardinality(DOMAIN orders) + 1
    IN /\ IF auth.status # HTTP_200_OK
          THEN /\ response' = Resp(op, auth.status, auth.detail)
               /\ UNCHANGED orders
          ELSE IF items # <<>> /\ items[1] \notin ProductIds
          THEN /\ response' = Resp(op, HTTP_404_NOT_FOUND, "Product with ID 9 not found")
               /\ UNCHANGED orders
          ELSE IF items # <<>>
          THEN /\ response' = RespLog(op, HTTP_500_INTERNAL_SERVER_ERROR,
                                      "Internal Server Error", "AttributeError")
               /\ UNCHANGED orders
          ELSE /\ new_id <= MaxOrders
               /\ response' = [Resp(op, HTTP_201_CREATED, "") EXCEPT !.body = {new_id}]
               /\ orders' = [o \in DOMAIN orders \cup {new_id} |->
                                IF o = new_id
                                THEN [user_id |-> auth.user.id, status |-> "PENDING",
                                      total_price |-> 0, is_deleted |-> FALSE]
                                ELSE orders[o]]
       /\ UNCHANGED <<users, roles, permissions, role_permissions, tokens, now, gate,
                      sessions, last_unassign>>

\* PUT /orders/order/{order_id}
UpdateOrder(token, order_id, order_status, total_price) ==
    LET op == "update_order"
        auth == get_current_user(token, now)
        access == order_access(order_id, auth.user.id)
        order_model == orders[order_id]
        with_status == IF order_status # ""
                       THEN [order_model EXCEPT !.status = order_status]
                       ELSE order_model
        updated == IF total_price # 0 /\ order_model.total_price <= 0
                   THEN [with_status EXCEPT !.total_price = total_price]
                   ELSE with_status
    IN /\ IF auth.status # HTTP_200_OK
          THEN /\ response' = Resp(op, auth.status, auth.detail)
               /\ UNCHANGED orders
          ELSE IF access.status # HTTP_200_OK
          THEN /\ response' = Resp(op, access.status, access.detail)
               /\ UNCHANGED orders
          ELSE /\ response' = RespBody(op, {order_id})
               /\ orders' = [orders EXCEPT ![order_id] = updated]
       /\ UNCHANGED <<users, roles, permissions, role_permissions, tokens, now, gate,
                      sessions, last_unassign>>

\* DELETE /orders/order/{order_id}
DeleteOrder(token, order_id) ==
    LET op == "delete_order"
        auth == get_current_user(token, now)
        access == order_access(order_id, auth.user.id)
    IN /\ IF auth.status # HTTP_200_OK
          THEN /\ response' = Resp(op, auth.status, auth.detail)
               /\ UNCHANGED orders
          ELSE IF access.status # HTTP_200_OK
          THEN /\ response' = Resp(op, access.status, access.detail)
               /\ UNCHANGED orders
          ELSE /\ response' = Resp(op, HTTP_204_NO_CONTENT, "")
               /\ orders' = [orders EXCEPT ![order_id].is_deleted = TRUE]
       /\ UNCHANGED <<users, roles, permissions, role_permissions, tokens, now, gate,
                      sessions, last_unassign>>

\* one second passes
Tick ==
    /\ now < MaxNow
    /\ now' = now + 1
    /\ UNCHANGED <<db, tokens, response, gate, sessions, last_unassign>>

\* a call of check_permissions on the identity context and required list
\* the state holds; the caller keeps both objects as the call leaves them.
\* The function is handed no session and opens none.
CheckPermissions ==
    LET r == check_permissions(gate_user, gate_required)
    IN /\ response' = [Resp("check_permissions", r.status, r.detail)
                          EXCEPT !.missing = r.missing]
       /\ gate_user' = r.user
       /\ gate_required' = r.required
       /\ UNCHANGED <<db, tokens, now, sessions, last_unassign>>

-----------------------------------------------------------------------------
(* Specifications *)

LoginStepOf(names) ==
    \E u \in names, p \in Passwords : \E listed \in LoginLists(u, p) : Login(u, p, listed)

LoginStep == LoginStepOf(Usernames)

\* the usernames of the callers of the role endpoints, which ask for no
\* permission: a viewer and a name no row holds
RoleCallers == {"bob", "mallory"}

RoleCallerLoginStep == LoginStepOf(RoleCallers)

ReadAllRolesStep == \E t \in PresentedTokens : ReadAllRoles(t)

AddPermissionsStep ==
    \E t \in IssuedTokens, r \in RoleIdInputs, ps \in SeqsUpTo(PermIdInputs, MaxReq) :
        AddPermissionsToRole(t, r, ps)

RemovePermissionsStep ==
    \E t \in IssuedTokens, r \in RoleIdInputs, ps \in SeqsUpTo(PermIdInputs, MaxReq) :
        RemovePermissionsFromRole(t, r, ps)

PermissionNameInputs ==
    {permissions[p].name : p \in DOMAIN permissions \cap PermIdInputs} \cup {"NO_SUCH"}

AssignPermissionStep ==
    \E r \in RoleIdInputs, n \in PermissionNameInputs : AssignPermissionToRole(r, n)

RemovePermissionStep ==
    \E r \in RoleIdInputs, n \in PermissionNameInputs : RemovePermissionFromRole(r, n)

DeleteRoleStep == \E t \in IssuedTokens, r \in RoleIdInputs : DeleteRole(t, r)

ReadAllPermissionsStep == \E t \in PresentedTokens : ReadAllPermissions(t)

CreatePermissionStep ==
    \E t \in IssuedTokens, n \in NewPermissionNames : CreatePermission(t, n)

DeletePermissionStep ==
    \E t \in IssuedTokens, p \in PermIdInputs : DeletePermission(t, p)

\* the role/permission graph, issuance and verification
Next ==
    \/ RoleCallerLoginStep
    \/ ReadAllRolesStep
    \/ AddPermissionsStep
    \/ RemovePermissionsStep
    \/ AssignPermissionStep
    \/ RemovePermissionStep
    \/ DeleteRoleStep

Spec == Provisioned /\ [][Next]_vars

\* assign and unassign alone
NextAssign ==
    \/ RoleCallerLoginStep
    \/ AddPermissionsStep
    \/ RemovePermissionsStep
    \/ AssignPermissionStep
    \/ RemovePermissionStep

SpecAssign == Provisioned /\ [][NextAssign]_vars

\* logins against a users table whose rows carry either value of the
\* soft-delete flag
InitAccounts ==
    /\ \E deleted \in SUBSET DOMAIN ProvisionedUsers :
          users = [u \in DOMAIN ProvisionedUsers |->
                      [ProvisionedUsers[u] EXCEPT !.is_deleted = (u \in deleted)]]
    /\ roles = ProvisionedRoles
    /\ permissions = ProvisionedPermissions
    /\ role_permissions = ProvisionedRolePermissions
    /\ orders = ProvisionedOrders
    /\ tokens = {}
    /\ now = 0
    /\ response = NoResponse
    /\ gate_user = NoUser
    /\ gate_required = <<>>
    /\ sessions = InitSessions
    /\ last_unassign = NoUnassign

ChangePasswordStep ==
    \E t \in PresentedTokens, pw \in Passwords, new \in Passwords, salt \in Salts :
        ChangePassword(t, pw, new, salt)

NextAccounts ==
    \/ RoleCallerLoginStep
    \/ ChangePasswordStep
    \/ ReadAllRolesStep
    \/ DeleteRoleStep
    \/ RemovePermissionStep

SpecAccounts == InitAccounts /\ [][NextAccounts]_vars

\* the verifiers as functions of the bearer token: the client holds one
\* token whose claims, signing key and expiry are drawn from the inputs below
SubInputs == {"", "bob"}

IdInputs == {0, 1}

ExpInputs == {MaxIssue, MaxNow + expires_delta}

KeyInputs == {SECRET_KEY, "attacker-key"}

\* the claims of a token: role, permissions and exp, and those of sub and id
\* that the set present names
ClaimsOf(present, sub, id, exp) ==
    [k \in {"role", "permissions", "exp"} \cup present |->
        CASE k = "sub" -> sub
          [] k = "id" -> id
          [] k = "role" -> "viewer"
          [] k = "permissions" -> <<"VIEW_STOCKS">>
          [] k = "exp" -> exp]

InitVerify ==
    /\ ProvisionedDb
    /\ \E present \in SUBSET {"sub", "id"}, sub \in SubInputs, id \in IdInputs,
          exp \in ExpInputs, key \in KeyInputs :
          tokens = {[jwt |-> jwt_encode(ClaimsOf(present, sub, id, exp), key),
                     resolved |-> {"VIEW_STOCKS"}]}
    /\ now = 0
    /\ response = NoResponse
    /\ gate_user = NoUser
    /\ gate_required = <<>>
    /\ sessions = InitSessions
    /\ last_unassign = NoUnassign

NextVerify ==
    \/ Tick
    \/ ReadAllRolesStep
    \/ ReadAllPermissionsStep

SpecVerify == InitVerify /\ [][NextVerify]_vars

\* two workers serving assign requests at the same time
\* the requests the workers serve, as <<role id, permission ids>>; a request
\* for a role that no row has is answered before its list is read, and
\* carries one id
WorkerRequests ==
    {q \in WorkerRoleIdInputs \X SeqsUpTo(WorkerPermIdInputs, MaxReq) :
        q[1] \notin DOMAIN ProvisionedRoles => Len(q[2]) = 1}

BeginAddPermissionsStep ==
    \E w \in Workers, t \in IssuedTokens, q \in WorkerRequests :
        BeginAddPermissions(w, t, q[1], q[2])

SelectPermissionStep == \E w \in Workers : SelectPermission(w)

SelectRolePermissionStep == \E w \in Workers : SelectRolePermission(w)

CommitAddPermissionsStep == \E w \in Workers : CommitAddPermissions(w)

WorkerRemovePermissionsStep ==
    \E t \in IssuedTokens, q \in WorkerRequests :
        RemovePermissionsFromRole(t, q[1], q[2])

NextConcurrent ==
    \/ RoleCallerLoginStep
    \/ BeginAddPermissionsStep
    \/ SelectPermissionStep
    \/ SelectRolePermissionStep
    \/ CommitAddPermissionsStep
    \/ WorkerRemovePermissionsStep

SpecConcurrent == Provisioned /\ [][NextConcurrent]_vars

\* unassign in the first seconds, logins that replace the client's token,
\* and the clock
ReloginStep ==
    /\ now <= MaxIssue
    /\ \E u \in RoleCallers, p \in Passwords :
          \E listed \in LoginLists(u, p) : LoginReplacing(u, p, listed)

UnassignAtStep ==
    /\ now <= MaxIssue
    /\ \E t \in IssuedTokens, r \in RoleIdInputs, ps \in SeqsUpTo(PermIdInputs, MaxReq) :
          RemovePermissionsFromRoleAt(t, r, ps)

NextRevoke ==
    \/ ReloginStep
    \/ UnassignAtStep
    \/ Tick

SpecRevoke == Provisioned /\ [][NextRevoke]_vars

\* the requests that take the seeded database to the provisioned deployment
ProvisionStep ==
    \/ CreateUser("bob", "bob@example.com", PwA, 5, "salt-1")
    \/ CreateUser("alice", "alice@example.com", PwLongX, 6, "salt-2")
    \/ \E u \in {"bob", "alice"}, p \in {PwA, PwLongX} :
          \E listed \in LoginLists(u, p) : LoginReplacing(u, p, listed)
    \/ \E t \in IssuedTokens : CreateRole(t, "permission_admin")
    \/ \E t \in IssuedTokens :
          LET i == Cardinality(DOMAIN permissions) - Len(seed_permissions) + 1
          IN i \in DOMAIN required_permissions /\ CreatePermission(t, required_permissions[i])
    \/ \E t \in IssuedTokens, p \in SeqsUpTo(DOMAIN permissions \ DOMAIN InitPermissions, 1) :
          AddPermissionsToRole(t, 6, p)
    \/ \E t \in IssuedTokens : CreateOrder(t, <<>>)
    \/ \E t \in IssuedTokens : UpdateOrder(t, 1, "", 5)

SpecProvision == Init /\ [][ProvisionStep]_vars

\* accounts that are created and then used to log in
CreateUserStep ==
    \E u \in NewUsernames, e \in EmailInputs, pw \in Passwords, r \in RoleIdOptions,
       salt \in Salts :
        CreateUser(u, e, pw, r, salt)

NextUsers ==
    \/ CreateUserStep
    \/ LoginStep
    \/ ChangePasswordStep

SpecUsers == Init /\ [][NextUsers]_vars

\* assign, unassign and assign again through the role endpoints
NextRegrant ==
    \/ RoleCallerLoginStep
    \/ AddPermissionsStep
    \/ UnassignAtStep

SpecRegrant == Provisioned /\ [][NextRegrant]_vars

\* the permission endpoints
NextCrud ==
    \/ LoginStep
    \/ ReadAllPermissionsStep
    \/ CreatePermissionStep
    \/ DeletePermissionStep
    \/ DeleteRoleStep

SpecCrud == Provisioned /\ [][NextCrud]_vars

ReadPermissionStep ==
    \E t \in IssuedTokens, p \in PermIdInputs : ReadPermission(t, p)

UpdatePermissionStep ==
    \E t \in IssuedTokens, p \in PermIdInputs, n \in PermissionUpdateNames :
        UpdatePermission(t, p, n)

\* the role id of the requests that read, rename and delete a role
NamedRoleIds == {5}

ReadRoleStep == \E t \in IssuedTokens, r \in NamedRoleIds : ReadRole(t, r)

CreateRoleStep == \E t \in IssuedTokens, n \in NewRoleNames : CreateRole(t, n)

UpdateRoleStep ==
    \E t \in IssuedTokens, r \in NamedRoleIds, n \in RoleUpdateNames : UpdateRole(t, r, n)

DeleteNamedRoleStep == \E t \in IssuedTokens, r \in NamedRoleIds : DeleteRole(t, r)

\* the caller of the role and permission endpoints logs in once
FirstLoginStep == tokens = {} /\ LoginStep

\* create, read, rename and soft-delete of roles and permissions
NextNames ==
    \/ FirstLoginStep
    \/ CreatePermissionStep
    \/ ReadPermissionStep
    \/ UpdatePermissionStep
    \/ DeletePermissionStep
    \/ CreateRoleStep
    \/ ReadRoleStep
    \/ UpdateRoleStep
    \/ DeleteNamedRoleStep

SpecNames == Provisioned /\ [][NextNames]_vars

\* the two assign paths and the hard delete, for one caller
NextPairs ==
    \/ FirstLoginStep
    \/ AddPermissionsStep
    \/ AssignPermissionStep
    \/ RemovePermissionStep

SpecPairs == Provisioned /\ [][NextPairs]_vars

ReadAllOrdersStep == \E t \in IssuedTokens : ReadAllOrders(t)

ReadOrderStep == \E t \in IssuedTokens, o \in OrderIdInputs : ReadOrder(t, o)

ReadAllByUserStep ==
    \E t \in IssuedTokens, u \in UserIdInputs, st \in OrderStatusInputs :
        ReadAllByUser(t, u, st)

CreateOrderStep == \E t \in IssuedTokens, items \in OrderItemInputs : CreateOrder(t, items)

UpdateOrderStep ==
    \E t \in IssuedTokens, o \in OrderIdInputs, st \in OrderStatusInputs,
       price \in TotalPriceInputs : UpdateOrder(t, o, st, price)

DeleteOrderStep == \E t \in IssuedTokens, o \in OrderIdInputs : DeleteOrder(t, o)

\* the orders endpoints
NextOrders ==
    \/ FirstLoginStep
    \/ ReadAllOrdersStep
    \/ ReadOrderStep
    \/ ReadAllByUserStep
    \/ CreateOrderStep
    \/ UpdateOrderStep
    \/ DeleteOrderStep

SpecOrders == Provisioned /\ [][NextOrders]_vars

\* the clock: tokens issued in the first seconds, verified as time passes
EarlyLoginStep == now <= MaxIssue /\ LoginStep

NextExpiry ==
    \/ EarlyLoginStep
    \/ Tick
    \/ ReadAllRolesStep

SpecExpiry == Provisioned /\ [][NextExpiry]_vars

\* the gate as a function of its two inputs
GatePermissionNames == {"VIEW_STOCKS", "VALIDATE_ORDERS", "EDIT_USERS"}

InitGate ==
    /\ ProvisionedDb
    /\ tokens = {}
    /\ now = 0
    /\ response = NoResponse
    /\ \E perms \in SeqsUpTo(GatePermissionNames, MaxGranted) :
          gate_user = [id |-> 1, username |-> "bob", user_role |-> "viewer",
                       permissions |-> perms]
    /\ gate_required \in SeqsUpTo(GatePermissionNames, MaxRequired)
    /\ sessions = InitSessions
    /\ last_unassign = NoUnassign

\* calls of the gate, and between them logins and role deletions that
\* change the tables under the context
NextGate ==
    \/ CheckPermissions
    \/ RoleCallerLoginStep
    \/ DeleteRoleStep

SpecGate == InitGate /\ [][NextGate]_vars

-----------------------------------------------------------------------------
(* Properties *)

\* the acting caller's identity context
ContextOf(token) == get_current_user(token, now).user

\* the role row a token was issued for
RoleOfToken(token) == users[token.claims.id].role_id

\* section 4.2 of the specification: names of the non-deleted permissions a
\* role is linked to (an association row carries no deletion flag)
ActivePermissionNames(role_id) ==
    {permissions[p].name :
        p \in {q \in DOMAIN permissions :
                  ExistingRolePermission(role_id, q) /\ ~permissions[q].is_deleted}}

RECURSIVE SomeList(_)
\* one of the lists of ListsOf(S)
SomeList(S) ==
    IF S = {} THEN <<>>
    ELSE LET x == CHOOSE y \in S : TRUE IN <<x>> \o SomeList(S \ {x})

\* C1: a token presented before its expiry yields an identity context whose
\* permissions, as a set, are the set the issuer resolved for the role when
\* it issued the token, whatever happened to the graph since.
C1_RoundTripSnapshot ==
    \A t \in tokens :
        now < t.jwt.claims.exp =>
            LET v == get_current_user(t.jwt, now)
            IN /\ v.status = HTTP_200_OK
               /\ Range(v.user.permissions) = t.resolved

\* C1 witness: a token was verified after the graph changed under it.
C1_Witness ==
    /\ response.op = "read_all_roles"
    /\ response.status = HTTP_200_OK
    /\ \E t \in tokens :
          /\ now < t.jwt.claims.exp
          /\ t.resolved # RolePermissionNames(RoleOfToken(t.jwt))

\* C2: a token is rejected at every time now >= exp and accepted at every
\* time now < exp; in particular it is rejected at now = exp.
C2_ExpiryBoundary ==
    \A t \in tokens :
        LET v == get_current_user(t.jwt, now)
        IN IF now >= t.jwt.claims.exp
           THEN v.status = HTTP_401_UNAUTHORIZED
           ELSE v.status = HTTP_200_OK

\* C3: whenever a token can be issued for a role, the permissions it carries
\* are exactly the names of the non-deleted permissions linked to the role.
C3_ResolvedIsActiveSet ==
    \A r \in DOMAIN roles :
        LET issued == create_access_token("alice", 2, roles[r].name, expires_delta, now,
                                          SomeList(RolePermissionNames(r)))
        IN issued.ok =>
              Range(issued.token.claims.permissions) = ActivePermissionNames(r)

\* C4: after a successful unassign(R, p) the set resolved for R does not
\* hold p's name, and every other role resolves as before.
C4_UnassignRemoves ==
    [][response'.op = "remove_permissions_from_role"
       /\ response'.status = HTTP_204_NO_CONTENT
       => \A t \in IssuedTokens, r \in RoleIdInputs, p \in PermIdInputs :
             RemovePermissionsFromRole(t, r, <<p>>)
             => /\ permissions[p].name \notin RolePermissionNames(r)'
                /\ \A o \in DOMAIN roles \ {r} :
                      RolePermissionNames(o)' = RolePermissionNames(o)]_vars

\* C5: a (role id, permission id) pair never has more than one association
\* row, and right after a successful assign it has exactly one.
C5_PairAtMostOnce ==
    /\ [](\A pair \in DOMAIN role_permissions : role_permissions[pair] <= 1)
    /\ [][/\ response'.op = "add_permissions_to_role"
             /\ response'.status = HTTP_201_CREATED
             => \A t \in IssuedTokens, r \in RoleIdInputs,
                   ps \in SeqsUpTo(PermIdInputs, MaxReq) :
                   AddPermissionsToRole(t, r, ps)
                   => \A i \in DOMAIN ps : role_permissions'[<<r, ps[i]>>] = 1
          /\ response'.op = "assign_permission_to_role"
             /\ response'.log = ""
             => \A r \in RoleIdInputs, n \in PermissionNameInputs :
                   AssignPermissionToRole(r, n)
                   => role_permissions'[<<r, ActivePermissionByName(n)>>] = 1]_vars

\* C5 witness: an assign succeeded and inserted a row.
C5_Witness ==
    /\ response.op = "add_permissions_to_role"
    /\ response.status = HTTP_201_CREATED
    /\ role_permissions # ProvisionedRolePermissions
    /\ <<5, 13>> \in DOMAIN role_permissions

\* C6: an assign of a pair that already has an association is answered 400
\* and leaves the association table as it was.
C6_AlreadyAssignedRejected ==
    [][\A t \in IssuedTokens, r \in RoleIdInputs, p \in PermIdInputs :
          /\ get_current_user(t, now).status = HTTP_200_OK
          /\ ActiveRole(r)
          /\ ActivePermission(p)
          /\ ExistingRolePermission(r, p)
          /\ AddPermissionsToRole(t, r, <<p>>)
          => /\ response'.status = HTTP_400_BAD_REQUEST
             /\ role_permissions' = role_permissions]_vars

\* C7: a login with a known username and a wrong password and a login with
\* an unknown username get the same status, 401, and the same message.
C7_LoginFailuresIndistinguishable ==
    \A u \in DOMAIN users, n \in Usernames, pw \in Passwords, pw2 \in Passwords :
        ~bcrypt_verify(pw, users[u].hashed_password) /\ UserByUsername(n) = NULL
        => LET bad == login_for_access_token(users[u].username, pw, now, <<>>)
               unknown == login_for_access_token(n, pw2, now, <<>>)
           IN /\ LoginLists(users[u].username, pw) = {<<>>}
              /\ LoginLists(n, pw2) = {<<>>}
              /\ bad.status = HTTP_401_UNAUTHORIZED
              /\ unknown.status = HTTP_401_UNAUTHORIZED
              /\ bad.detail = unknown.detail

\* C7 witness: a login with a known username and a wrong password was refused.
C7_Witness ==
    /\ response.op = "login_for_access_token"
    /\ response.status = HTTP_401_UNAUTHORIZED
    /\ response.log = "Failed login attempt: Incorrect password."

\* C8: the gate allows exactly when every required permission is in the
\* context's permissions; otherwise it answers 403 and names exactly the
\* required permissions that are missing.
C8_GateSubset ==
    response.op = "check_permissions" =>
        LET required == Range(gate_required)
            held == Range(gate_user.permissions)
        IN /\ response.status \in {HTTP_200_OK, HTTP_403_FORBIDDEN}
           /\ response.status = HTTP_200_OK <=> required \subseteq held
           /\ Range(response.missing) = required \ held

\* C8 witness: the context {VIEW_STOCKS, VALIDATE_ORDERS} was denied EDIT_USERS.
C8_Witness ==
    /\ response.op = "check_permissions"
    /\ Range(gate_user.permissions) = {"VIEW_STOCKS", "VALIDATE_ORDERS"}
    /\ gate_required = <<"EDIT_USERS">>
    /\ response.status = HTTP_403_FORBIDDEN
    /\ response.missing = <<"EDIT_USERS">>

\* C9: a permission endpoint answers with success only to a caller whose
\* token passes the gate for the endpoint's required permissions.
C9_GateBeforeCrud ==
    [][response'.op \in {"read_all_permissions", "create_permission", "delete_permission"}
       /\ response'.status \in {HTTP_200_OK, HTTP_201_CREATED, HTTP_204_NO_CONTENT}
       => \A t \in IssuedTokens :
             (\/ ReadAllPermissions(t)
              \/ \E n \in NewPermissionNames : CreatePermission(t, n)
              \/ \E p \in PermIdInputs : DeletePermission(t, p))
             => check_permissions(dependencies_get_current_user(t, now).user,
                                  required_permissions).status = HTTP_200_OK]_vars

\* the permissions that administer the role/permission graph
AdministrativePermissions == Range(required_permissions) \cup {"MANAGE_PERMISSIONS"}

\* C10: assign and unassign are gated on an administrative permission before
\* any lookup, so a call of either changes the association table only for a
\* caller whose context passes the gate for an administrative permission.
C10_AssignNeedsAdmin ==
    [][response'.op \in {"add_permissions_to_role", "remove_permissions_from_role"}
       /\ role_permissions' # role_permissions
       => \A t \in IssuedTokens, r \in RoleIdInputs, ps \in SeqsUpTo(PermIdInputs, MaxReq) :
             (AddPermissionsToRole(t, r, ps) \/ RemovePermissionsFromRole(t, r, ps))
             => \E a \in AdministrativePermissions :
                   check_permissions(ContextOf(t), <<a>>).status = HTTP_200_OK]_vars

\* C11: no token is ever issued to a user whose soft-delete flag is set: a
\* login for such a user is refused even with the correct password.
C11_DeletedUserRefused ==
    \A t \in tokens : ~users[t.jwt.claims.id].is_deleted

\* C12: a role whose non-deleted permissions are none gets an issuance error
\* and no token, and every issued token carries a non-empty permission list.
C12_NoEmptyIssuance ==
    /\ \A t \in tokens : t.jwt.claims.permissions # <<>>
    /\ \A r \in DOMAIN roles :
          ~roles[r].is_deleted /\ ActivePermissionNames(r) = {}
          => LET issued == create_access_token("bob", 1, roles[r].name, expires_delta, now,
                                               SomeList(RolePermissionNames(r)))
             IN ~issued.ok /\ issued.token = NoToken

\* C13: while the role of a user is soft-deleted, every login of that user
\* ends without a token; with the right password it ends in the issuance
\* error for a missing role.
C13_DeletedRoleNoToken ==
    \A u \in DOMAIN users, pw \in Passwords :
        users[u].role_id \in DOMAIN roles /\ roles[users[u].role_id].is_deleted
        => \A listed \in LoginLists(users[u].username, pw) :
           LET r == login_for_access_token(users[u].username, pw, now, listed)
           IN /\ r.status # HTTP_200_OK
              /\ r.token = NoToken
              /\ bcrypt_verify(pw, users[u].hashed_password)
                 => /\ r.status = HTTP_500_INTERNAL_SERVER_ERROR
                    /\ r.log = "ValueError: role does not exist or is deleted"

\* C13 witness: a login was answered with the missing-role issuance error
\* after a role was deleted.
C13_Witness ==
    /\ response.op = "login_for_access_token"
    /\ response.status = HTTP_500_INTERNAL_SERVER_ERROR
    /\ response.log = "ValueError: role does not exist or is deleted"
    /\ \E u \in DOMAIN users : roles[users[u].role_id].is_deleted

\* the verifier an endpoint's response came from
VerifierOf(op, token) ==
    IF op = "read_all_roles" THEN get_current_user(token, now)
    ELSE dependencies_get_current_user(token, now)

\* C14: a refusal by a verifier is a 401 whose message is the message the
\* same verifier gives for every other token it refuses, whether the token
\* is badly signed, expired or lacks a claim.
C14_UniformRefusal ==
    response.op \in {"read_all_roles", "read_all_permissions"}
    /\ response.status # HTTP_200_OK
    => /\ response.status = HTTP_401_UNAUTHORIZED
       /\ \A q \in PresentedTokens :
             LET v == VerifierOf(response.op, q)
             IN v.status # HTTP_200_OK
                => v.status = HTTP_401_UNAUTHORIZED /\ v.detail = response.detail

\* a token signed with the service key, not yet expired, that lacks the
\* subject claim or the user id claim
LacksIdentityClaim(token) ==
    /\ token.key = SECRET_KEY
    /\ now < token.claims.exp
    /\ ("sub" \notin DOMAIN token.claims \/ "id" \notin DOMAIN token.claims)

\* C15: both verifiers answer 401, with no identity context, to a well
\* signed, unexpired token that lacks the subject or the user id claim.
C15_AbsentClaimRejected ==
    \A t \in tokens :
        LacksIdentityClaim(t.jwt)
        => /\ get_current_user(t.jwt, now).status = HTTP_401_UNAUTHORIZED
           /\ get_current_user(t.jwt, now).user = NoUser
           /\ dependencies_get_current_user(t.jwt, now).status = HTTP_401_UNAUTHORIZED
           /\ dependencies_get_current_user(t.jwt, now).user = NoUser

\* C15 witness: an endpoint refused a well signed, unexpired token without
\* its subject claim on the missing-claim branch.
C15_Witness ==
    /\ response.op = "read_all_permissions"
    /\ response.status = HTTP_401_UNAUTHORIZED
    /\ response.detail = "Could not validate credentials 1"
    /\ \E t \in tokens : LacksIdentityClaim(t.jwt) /\ "sub" \notin DOMAIN t.jwt.claims

\* C16: an unassign naming a missing role, a missing permission or a pair
\* with no association is refused as not found and changes no table; any
\* other unassign through the endpoint keeps the association row.  (Whether
\* the helper of admin.py keeps the row is the subject of C20.)
C16_UnassignNotFound ==
    [][/\ \A t \in IssuedTokens, r \in RoleIdInputs, p \in PermIdInputs :
             get_current_user(t, now).status = HTTP_200_OK
             /\ RemovePermissionsFromRole(t, r, <<p>>)
             => IF ActiveRole(r) /\ ActivePermission(p) /\ ExistingRolePermission(r, p)
                THEN /\ response'.status = HTTP_204_NO_CONTENT
                     /\ <<r, p>> \in DOMAIN role_permissions'
                ELSE /\ response'.status = HTTP_404_NOT_FOUND
                     /\ db' = db
       /\ \A r \in RoleIdInputs, n \in PermissionNameInputs :
             RemovePermissionFromRole(r, n)
             => \/ /\ ActiveRole(r)
                   /\ ActivePermissionByName(n) # NULL
                   /\ ExistingRolePermission(r, ActivePermissionByName(n))
                \/ response'.log = "ValueError" /\ db' = db]_vars

\* C20: no step removes a row of the users, roles, permissions or
\* role_permissions table.
C20_NoHardDelete ==
    [][/\ DOMAIN users \subseteq DOMAIN users'
       /\ DOMAIN roles \subseteq DOMAIN roles'
       /\ DOMAIN permissions \subseteq DOMAIN permissions'
       /\ \A pair \in DOMAIN role_permissions :
             /\ pair \in DOMAIN role_permissions'
             /\ role_permissions'[pair] >= role_permissions[pair]]_vars

\* C17: however the lookups and commits of the workers interleave, a pair
\* never has more than one association row, and a commit that carries a pair
\* another worker inserted since the lookup is rejected and inserts nothing.
C17_ConcurrentAssignOnce ==
    /\ [](\A r \in WorkerRoleIdInputs, p \in WorkerPermIdInputs :
             <<r, p>> \in DOMAIN role_permissions => role_permissions[<<r, p>>] = 1)
    /\ [][\A w \in Workers :
             /\ CommitAddPermissions(w)
             /\ \E i \in DOMAIN sessions[w].pending :
                   ExistingRolePermission(sessions[w].role_id, sessions[w].pending[i])
             => /\ sessions'[w].status = HTTP_500_INTERNAL_SERVER_ERROR
                /\ role_permissions' = role_permissions]_vars

\* C17 witness: two workers passed the lookup for (5, 13); one inserted the
\* row, and the commit of the other was rejected.
C17_Witness ==
    /\ response.log = "IntegrityError"
    /\ \E w \in Workers :
          /\ sessions[w].status = HTTP_500_INTERNAL_SERVER_ERROR
          /\ sessions[w].role_id = 5
          /\ sessions[w].pending = <<13>>
    /\ <<5, 13>> \in DOMAIN role_permissions
    /\ role_permissions[<<5, 13>>] = 1

\* C18: a request to add or remove permissions that ends in an error leaves
\* the association table as it was before the request.
C18_AllOrNothing ==
    [][/\ \A w \in Workers :
             /\ sessions'[w] # sessions[w]
             /\ sessions'[w].status \notin {0, HTTP_201_CREATED}
             => role_permissions' = role_permissions
       /\ response'.op = "remove_permissions_from_role"
          /\ response'.status # HTTP_204_NO_CONTENT
          => role_permissions' = role_permissions]_vars

\* C18 witness: a request for role 5 had permission 13 handed to the session,
\* then met a permission id that does not exist; (5, 13) has no row.
C18_Witness ==
    /\ \E w \in Workers :
          /\ sessions[w].status = HTTP_404_NOT_FOUND
          /\ sessions[w].role_id = 5
          /\ sessions[w].pending = <<13>>
    /\ <<5, 13>> \notin DOMAIN role_permissions

\* C19: later than one token lifetime after a successful unassign of
\* permissions from a role, no token a user of that role holds is verified
\* and passes the gate for one of those permissions.
C19_RevocationWithinTTL ==
    last_unassign # NoUnassign /\ now > last_unassign.at + expires_delta
    => \A t \in tokens, p \in last_unassign.permission_ids :
          LET v == get_current_user(t.jwt, now)
          IN /\ v.status = HTTP_200_OK
             /\ users[v.user.id].role_id = last_unassign.role_id
             => check_permissions(v.user, <<permissions[p].name>>).status
                    = HTTP_403_FORBIDDEN

\* the fields of an identity context
IdentityFields == {"id", "username", "user_role", "permissions"}

\* C21: a step that does not move the clock leaves the result of either
\* verifier on every token as it was, whatever it did to the tables; a
\* request that only verifies and reads changes no table; and an identity
\* context has exactly the fields id, username, user_role and permissions.
C21_VerifierStateless ==
    /\ [](\A q \in PresentedTokens :
             /\ DOMAIN get_current_user(q, now).user = IdentityFields
             /\ DOMAIN dependencies_get_current_user(q, now).user = IdentityFields)
    /\ [][/\ now' = now
             => \A q \in PresentedTokens :
                   /\ get_current_user(q, now)' = get_current_user(q, now)
                   /\ dependencies_get_current_user(q, now)'
                          = dependencies_get_current_user(q, now)
          /\ response'.op = "read_all_roles" => db' = db]_vars

\* C21 witness: a token was verified after a role was deleted and an
\* association removed under it.
C21_Witness ==
    /\ response.op = "read_all_roles"
    /\ response.status = HTTP_200_OK
    /\ role_permissions # ProvisionedRolePermissions
    /\ \E r \in DOMAIN roles : roles[r].is_deleted

\* C30: create_user with a username a row already holds, deleted or not,
\* answers 400 and adds no row; a create_user that succeeds adds exactly one
\* row, active, whose stored hash authenticate_user accepts for the password
\* of the request.
C30_CreateThenAuthenticate ==
    [][\A u \in NewUsernames, e \in EmailInputs, pw \in Passwords, r \in RoleIdOptions,
          salt \in Salts :
          response'.op = "create_user" /\ CreateUser(u, e, pw, r, salt)
          => IF UserByUsername(u) # NULL
             THEN response'.status = HTTP_400_BAD_REQUEST /\ users' = users
             ELSE response'.status = HTTP_201_CREATED
                  => LET new_id == Cardinality(DOMAIN users) + 1
                     IN /\ DOMAIN users' = DOMAIN users \cup {new_id}
                        /\ new_id \notin DOMAIN users
                        /\ \A o \in DOMAIN users : users'[o] = users[o]
                        /\ users'[new_id].username = u
                        /\ users'[new_id].is_active
                        /\ authenticate_user(u, pw)'.user = new_id]_vars

\* C30 witness: the created user mallory logged in and holds a token.
C30_Witness ==
    /\ response.op = "login_for_access_token"
    /\ response.status = HTTP_200_OK
    /\ \E t \in tokens : t.jwt.claims.sub = "mallory"

\* C22: a user without a role has no effective permission, every login of
\* that user ends without a token, and no held token belongs to such a user.
C22_NoRoleNoPermission ==
    /\ \A u \in DOMAIN users :
          users[u].role_id = NULL
          => /\ Users_permissions(u) = {}
             /\ \A pw \in Passwords :
                   \A listed \in LoginLists(users[u].username, pw) :
                      LET r == login_for_access_token(users[u].username, pw, now, listed)
                      IN r.status # HTTP_200_OK /\ r.token = NoToken
                         /\ r.permissions = {}
    /\ \A t \in tokens : users[t.jwt.claims.id].role_id # NULL

\* C22 witness: the login of a user created without a role ended in the
\* error of reading the name of no role.
C22_Witness ==
    /\ response.op = "login_for_access_token"
    /\ response.status = HTTP_500_INTERNAL_SERVER_ERROR
    /\ response.log = "AttributeError"
    /\ \E u \in DOMAIN users : users[u].role_id = NULL

\* C23: a call of the gate leaves the identity context, the required list
\* and every table as they were; a call that follows another call on the
\* same context and required list gets the same answer; and the answer the
\* gate gives for a context and a required list is the same before and after
\* any step that changes the tables.
C23_GateIdempotent ==
    [][/\ response'.op = "check_permissions"
          => /\ gate' = gate
             /\ db' = db
             /\ response.op = "check_permissions"
                => /\ response'.status = response.status
                   /\ response'.missing = response.missing
       /\ gate' = gate
          => check_permissions(gate_user, gate_required)'
                = check_permissions(gate_user, gate_required)]_vars

\* C23 witness: the gate allowed a context holding every permission of a
\* required list that is not empty, after the role the context names was
\* deleted.
C23_Witness ==
    /\ response.op = "check_permissions"
    /\ response.status = HTTP_200_OK
    /\ gate_required # <<>>
    /\ Range(gate_required) \subseteq Range(gate_user.permissions)
    /\ \E r \in DOMAIN roles : roles[r].name = gate_user.user_role /\ roles[r].is_deleted

\* C24: an assign of permission p to role R that follows a successful
\* unassign of an association (R, p) finds no association (R, p), is
\* answered with success and leaves (R, p) associated and p's name in the set
\* resolved and issued for R.
C24_RegrantAfterUnassign ==
    [][\A t \in IssuedTokens, r \in RoleIdInputs, p \in PermIdInputs :
          /\ last_unassign.role_id = r
          /\ p \in last_unassign.permission_ids
          /\ get_current_user(t, now).status = HTTP_200_OK
          /\ ActiveRole(r)
          /\ ActivePermission(p)
          /\ AddPermissionsToRole(t, r, <<p>>)
          => /\ ~ExistingRolePermission(r, p)
             /\ response'.status = HTTP_201_CREATED
             /\ ExistingRolePermission(r, p)'
             /\ permissions[p].name \in RolePermissionNames(r)'
             /\ LET issued == create_access_token("bob", 1, roles[r].name, expires_delta,
                                                  now, SomeList(RolePermissionNames(r)))'
                IN issued.ok /\ permissions[p].name \in issued.permissions]_vars

\* C25: for every token and time the two verifiers give the same status,
\* 200 or 401, and the same identity context.
C25_VerifiersEquivalent ==
    \A q \in PresentedTokens :
        LET a == get_current_user(q, now)
            b == dependencies_get_current_user(q, now)
        IN /\ a.status = b.status
           /\ a.status \in {HTTP_200_OK, HTTP_401_UNAUTHORIZED}
           /\ a.user = b.user

\* C25 witness: an endpoint behind the verifier of dependencies.py accepted
\* a token that the verifier of routers/auth.py accepts at the same time.
C25_Witness ==
    /\ response.op = "read_all_permissions"
    /\ response.status = HTTP_200_OK
    /\ now > 0
    /\ \E t \in tokens : get_current_user(t.jwt, now).status = HTTP_200_OK

\* the token with one claim taken out of its payload
WithoutClaim(token, key) ==
    [token EXCEPT !.claims = [k \in DOMAIN token.claims \ {key} |-> token.claims[k]]]

\* a well signed, unexpired token whose claim key is present and equal to v
HasClaimValue(token, key, v) ==
    /\ token.key = SECRET_KEY
    /\ now < token.claims.exp
    /\ key \in DOMAIN token.claims
    /\ token.claims[key] = v

\* C28: a well signed, unexpired token whose id is 0 or whose sub is the
\* empty string gets from each verifier the answer the same token without
\* that claim gets, a 401, and no verifier yields a context with id 0.
C28_ZeroIdRejected ==
    /\ \A t \in tokens, key \in {"id", "sub"} :
          HasClaimValue(t.jwt, key, IF key = "id" THEN 0 ELSE "")
          => /\ get_current_user(t.jwt, now).status = HTTP_401_UNAUTHORIZED
             /\ get_current_user(t.jwt, now)
                    = get_current_user(WithoutClaim(t.jwt, key), now)
             /\ dependencies_get_current_user(t.jwt, now)
                    = dependencies_get_current_user(WithoutClaim(t.jwt, key), now)
    /\ \A q \in PresentedTokens :
          /\ get_current_user(q, now).status = HTTP_200_OK
             => get_current_user(q, now).user.id # 0
          /\ dependencies_get_current_user(q, now).status = HTTP_200_OK
             => dependencies_get_current_user(q, now).user.id # 0

\* C28 witness: an endpoint refused, on the missing-claim branch, a well
\* signed, unexpired token of bob whose id claim is 0.
C28_Witness ==
    /\ response.op = "read_all_permissions"
    /\ response.status = HTTP_401_UNAUTHORIZED
    /\ response.detail = "Could not validate credentials 1"
    /\ \E t \in tokens : HasClaimValue(t.jwt, "id", 0) /\ HasClaimValue(t.jwt, "sub", "bob")

\* C26: no two rows of the permissions table, and no two rows of the roles
\* table, hold one name; a create request for a name some row holds, soft
\* deleted or not, is answered 400 and writes nothing.
C26_UniqueNames ==
    /\ [](/\ \A a, b \in DOMAIN permissions :
                a # b => permissions[a].name # permissions[b].name
          /\ \A a, b \in DOMAIN roles : a # b => roles[a].name # roles[b].name)
    /\ [][/\ \A t \in IssuedTokens, n \in NewPermissionNames :
               /\ response'.op = "create_permission"
               /\ dependencies_get_current_user(t, now).status = HTTP_200_OK
               /\ \E p \in DOMAIN permissions : permissions[p].name = n
               /\ CreatePermission(t, n)
               => response'.status = HTTP_400_BAD_REQUEST /\ db' = db
          /\ \A t \in IssuedTokens, n \in NewRoleNames :
               /\ response'.op = "create_role"
               /\ get_current_user(t, now).status = HTTP_200_OK
               /\ \E r \in DOMAIN roles : roles[r].name = n
               /\ CreateRole(t, n)
               => response'.status = HTTP_400_BAD_REQUEST /\ db' = db]_vars

\* C26 witness: a rename to a name another row holds was refused by the
\* table, after a permission was renamed and while a soft-deleted row
\* still holds its name.
C26_Witness ==
    /\ response.op = "update_permission"
    /\ response.log = "IntegrityError"
    /\ permissions[13].name = "EXPORT_REPORTS"
    /\ permissions[1].is_deleted
    /\ Cardinality(DOMAIN roles) = MaxRoles

\* C27: a soft-deleted role or permission row never changes again, and a
\* read by id, an update or a delete of it by a caller the endpoint admits
\* is answered 404.
C27_SoftDeleteAbsorbing ==
    [][/\ \A r \in DOMAIN roles : roles[r].is_deleted => roles'[r] = roles[r]
       /\ \A p \in DOMAIN permissions :
            permissions[p].is_deleted => permissions'[p] = permissions[p]
       /\ \A t \in IssuedTokens, r \in NamedRoleIds :
            /\ response'.op \in {"read_role", "delete_role", "update_role"}
            /\ r \in DOMAIN roles /\ roles[r].is_deleted
            /\ get_current_user(t, now).status = HTTP_200_OK
            /\ \/ ReadRole(t, r)
               \/ DeleteRole(t, r)
               \/ \E n \in RoleUpdateNames : UpdateRole(t, r, n)
            => response'.status = HTTP_404_NOT_FOUND /\ db' = db
       /\ \A t \in IssuedTokens, p \in PermIdInputs :
            /\ response'.op \in {"read_permission", "delete_permission", "update_permission"}
            /\ p \in DOMAIN permissions /\ permissions[p].is_deleted
            /\ dependencies_get_current_user(t, now).status = HTTP_200_OK
            /\ check_permissions(dependencies_get_current_user(t, now).user,
                                 required_permissions).status = HTTP_200_OK
            /\ \/ ReadPermission(t, p)
               \/ DeletePermission(t, p)
               \/ \E n \in PermissionUpdateNames : UpdatePermission(t, p, n)
            => response'.status = HTTP_404_NOT_FOUND /\ db' = db]_vars

\* C27 witness: a second delete of a soft-deleted permission was answered
\* 404 while a role is soft-deleted too.
C27_Witness ==
    /\ response.op = "delete_permission"
    /\ response.status = HTTP_404_NOT_FOUND
    /\ permissions[13].is_deleted
    /\ \E r \in DOMAIN roles : roles[r].is_deleted

\* C29: a read, update or soft delete of another user's order is answered
\* 403 and leaves the order as it is, and the orders an orders endpoint
\* returns all carry the user id of the caller's token.
C29_OrderIsolation ==
    [][\A t \in IssuedTokens :
          get_current_user(t, now).status = HTTP_200_OK
          => LET me == get_current_user(t, now).user.id
             IN /\ \A o \in OrderIdInputs :
                     /\ ActiveOrder(o) /\ orders[o].user_id # me
                     /\ \/ ReadOrder(t, o)
                        \/ DeleteOrder(t, o)
                        \/ \E st \in OrderStatusInputs, price \in TotalPriceInputs :
                              UpdateOrder(t, o, st, price)
                     => response'.status = HTTP_403_FORBIDDEN /\ orders' = orders
                /\ \/ ReadAllOrders(t)
                   \/ \E o \in OrderIdInputs : ReadOrder(t, o)
                   \/ \E u \in UserIdInputs, st \in OrderStatusInputs :
                         ReadAllByUser(t, u, st)
                   => \A o \in response'.body : orders[o].user_id = me]_vars

====
